---- MODULE Spec2Model ----
(***************************************************************************)
(* Portfolio Analyzer (src/portfolio_app.py): the Flask handlers over the  *)
(* two SQLite tables, holdings and market_data.                            *)
(*                                                                         *)
(* Conventions of the model                                                *)
(*  - Money is an integer number of thousandths of a dollar, so that       *)
(*    round(x, 2) is a real conversion (to a multiple of 10).              *)
(*  - A nullable value is <<>> (SQL NULL, pandas NaN, an empty CSV cell)   *)
(*    or <<v>>.                                                            *)
(*  - A table is the sequence of its rows in rowid order; the id and the   *)
(*    timestamp columns are left out.                                      *)
(*  - A percentage is kept exact as a fraction [nan, num, den] until the   *)
(*    code rounds or formats it.                                           *)
(***************************************************************************)
EXTENDS Integers, Sequences, FiniteSets, TLC

VARIABLES
    holdings,      \* committed rows of table holdings
    market_data,   \* committed rows of table market_data
    locked,        \* a connection abandoned inside a write transaction still holds the write lock
    response,      \* the answer to the last request
    imported,      \* history: the parsed file (columns, rows) of the last committed import
    txn            \* the write transaction of an import that is served statement by statement

vars == <<holdings, market_data, locked, response, imported, txn>>

\* Rows per uploaded file.
MaxRows == 2

Null == <<>>
Some(v) == <<v>>
IsNull(x) == x = <<>>
Get(x) == x[1]

Columns ==
    {"ticker", "exchange", "currency", "start_value", "end_value",
     "start_price", "end_price", "dividends", "fees"}

NumericFields ==
    {"start_value", "end_value", "start_price", "end_price", "dividends", "fees"}

----------------------------------------------------------------------------
(* Arithmetic the handlers use.                                            *)

\* n/d rounded to the nearest integer, ties to even (d > 0).
RoundHalfEven(n, d) ==
    LET q == n \div d
        r == n % d
    IN  IF 2 * r < d THEN q
        ELSE IF 2 * r > d THEN q + 1
        ELSE IF q % 2 = 0 THEN q ELSE q + 1

\* round(x, 2) of an amount: NaN stays NaN.
Round2(x) ==
    IF IsNull(x) THEN Null ELSE Some(RoundHalfEven(Get(x), 10) * 10)

\* A percentage as an exact fraction; nan for float NaN.
Pct(n, d) == [nan |-> FALSE, num |-> n, den |-> d]
PctNaN == [nan |-> TRUE, num |-> 0, den |-> 1]

\* p > t and p < t as floats compare: every comparison with NaN is false.
PctGt(p, t) == ~p.nan /\ p.num > t * p.den
PctLt(p, t) == ~p.nan /\ p.num < t * p.den

\* The percentage in units of 10^-k percent (k = 1: tenths, k = 2: hundredths),
\* rounded to nearest; the integer part is split off first to stay in range.
PctScaled(p, scale) ==
    LET q == p.num \div p.den
        r == p.num % p.den
    IN  q * scale + RoundHalfEven(r * scale, p.den)

\* round(return_pct, 2): hundredths of a percent, NaN stays NaN.
RoundPct2(p) == IF p.nan THEN Null ELSE Some(PctScaled(p, 100))

Abs(n) == IF n < 0 THEN -n ELSE n

\* f'{return_pct:.1f}': the tenths of a percent that are printed.
Fmt1(p) == PctScaled(p, 10)

\* f'{abs(return_pct):.1f}'
Fmt1Abs(p) == Abs(PctScaled(p, 10))

----------------------------------------------------------------------------
(* POST /api/upload: the request and the rows of the parsed file.          *)

\* One DataFrame row restricted to the columns the file has.
Restrict(row, cols) == [c \in cols |-> row[c]]

\* row.get(name, default): the cell (NaN when it was empty) or the default.
RowGet(row, cols, name, default) ==
    IF name \in cols THEN row[name] ELSE Some(default)

\* The nine values bound to the INSERT; NaN is bound as NULL.
BoundRow(row, cols) ==
    [ticker      |-> RowGet(row, cols, "ticker", ""),
     exchange    |-> RowGet(row, cols, "exchange", ""),
     currency    |-> RowGet(row, cols, "currency", "USD"),
     start_value |-> RowGet(row, cols, "start_value", 0),
     end_value   |-> RowGet(row, cols, "end_value", 0),
     start_price |-> RowGet(row, cols, "start_price", 0),
     end_price   |-> RowGet(row, cols, "end_price", 0),
     dividends   |-> RowGet(row, cols, "dividends", 0),
     fees        |-> RowGet(row, cols, "fees", 0)]

\* ticker TEXT NOT NULL: the INSERT of a NULL ticker raises IntegrityError.
ViolatesNotNull(bound) == IsNull(bound.ticker)

\* The stored row: ticker is a plain string, every other column may be NULL.
StoredRow(bound) == [bound EXCEPT !.ticker = Get(bound.ticker)]

\* Mutant of InsertAll: the new rows are added to the old ones (no DELETE).
InsertAllMerging(old, rows, cols) ==
    old \o [i \in 1..Len(rows) |-> StoredRow(BoundRow(rows[i], cols))]

\* DELETE FROM holdings, then one INSERT per row of the file, in file order.
InsertAll(old, rows, cols) ==
    [i \in 1..Len(rows) |-> StoredRow(BoundRow(rows[i], cols))]

\* The answers of the handlers.
Ok(op, body) == [op |-> op, status |-> 200, body |-> body]
Err(op, status, msg) == [op |-> op, status |-> status, body |-> [error |-> msg]]

\* Mutant of UploadRejected: the file is parsed only after the DELETE was committed.
UploadRejectedAfterDelete(req) ==
    /\ holdings' = <<>>
    /\ UNCHANGED <<market_data, locked, imported>>
    /\ response' = Err("upload", 400,
                       IF ~req.has_file THEN "No file provided"
                       ELSE IF req.filename = "" THEN "No file selected"
                       ELSE "read_csv failed")

\* No 'file' field, an empty filename, or read_csv raising: 400 before any SQL.
UploadRejected(req) ==
    /\ UNCHANGED <<holdings, market_data, locked, imported>>
    /\ response' = Err("upload", 400,
                       IF ~req.has_file THEN "No file provided"
                       ELSE IF req.filename = "" THEN "No file selected"
                       ELSE "read_csv failed")

\* Mutant of Upload: a committed import also clears the quotes of the holdings
\* it replaced.
UploadClearingCache(req) ==
    IF ~req.has_file \/ req.filename = "" \/ ~req.parses
    THEN UploadRejected(req)
    ELSE IF locked
    THEN /\ UNCHANGED <<holdings, market_data, locked, imported>>
         /\ response' = Err("upload", 400, "database is locked")
    ELSE IF \E i \in 1..Len(req.rows) : ViolatesNotNull(BoundRow(req.rows[i], req.cols))
    THEN /\ UNCHANGED <<holdings, market_data, imported>>
         /\ locked' = TRUE
         /\ response' = Err("upload", 400, "NOT NULL constraint failed: holdings.ticker")
    ELSE /\ holdings' = InsertAll(holdings, req.rows, req.cols)
         /\ imported' = [cols |-> req.cols, rows |-> req.rows]
         /\ market_data' = <<>>
         /\ UNCHANGED locked
         /\ response' = Ok("upload", [message |-> "Portfolio uploaded successfully",
                                      holdings_count |-> Len(req.rows)])

Upload(req) ==
    IF ~req.has_file \/ req.filename = "" \/ ~req.parses
    THEN UploadRejected(req)
    ELSE IF locked
    THEN \* DELETE FROM holdings cannot take the write lock: OperationalError
         /\ UNCHANGED <<holdings, market_data, locked, imported>>
         /\ response' = Err("upload", 400, "database is locked")
    ELSE IF \E i \in 1..Len(req.rows) : ViolatesNotNull(BoundRow(req.rows[i], req.cols))
    THEN \* IntegrityError after the DELETE: the handler returns from its except
         \* block with nothing committed and the connection neither rolled back
         \* nor closed, so the open transaction keeps the write lock until the
         \* connection object is finalised
         /\ UNCHANGED <<holdings, market_data, imported>>
         /\ locked' = TRUE
         /\ response' = Err("upload", 400, "NOT NULL constraint failed: holdings.ticker")
    ELSE /\ holdings' = InsertAll(holdings, req.rows, req.cols)
         /\ imported' = [cols |-> req.cols, rows |-> req.rows]
         /\ UNCHANGED <<market_data, locked>>
         /\ response' = Ok("upload", [message |-> "Portfolio uploaded successfully",
                                      holdings_count |-> Len(req.rows)])

\* The garbage collector finalises the abandoned connection: its transaction
\* is rolled back and the write lock released.
CollectConnection ==
    /\ locked
    /\ locked' = FALSE
    /\ UNCHANGED <<holdings, market_data, response, imported>>

----------------------------------------------------------------------------
(* GET /api/portfolio                                                      *)

\* The rows in "ORDER BY end_value DESC" order: NULL sorts last, and SQL leaves
\* the order of rows with equal end_value open.
OrderedByEndValueDesc(rows) ==
    LET n == Len(rows)
        perms == {p \in [1..n -> 1..n] : \A i, j \in 1..n : i # j => p[i] # p[j]}
        before(a, b) == IsNull(b) \/ (~IsNull(a) /\ Get(a) >= Get(b))
    IN  {[i \in 1..n |-> rows[p[i]]] : p \in
            {q \in perms : \A i \in 1..n, j \in 1..n :
                i < j => before(rows[q[i]].end_value, rows[q[j]].end_value)}}

\* Series.sum(): NULL/NaN entries are skipped, the sum of none is 0.
RECURSIVE ColumnSum(_, _)
ColumnSum(rows, field) ==
    IF rows = <<>> THEN 0
    ELSE (IF IsNull(Head(rows)[field]) THEN 0 ELSE Get(Head(rows)[field]))
         + ColumnSum(Tail(rows), field)

\* Mutant of RoundAmount: no rounding at all.
RoundAmountIdentity(n) == n

\* round(x, 2) of a sum: to the nearest cent.
RoundAmount(n) == RoundHalfEven(n, 10) * 10

\* The summary of a non-empty holdings frame; return_percentage is in
\* hundredths of a percent.
Summary(rows) ==
    LET total_value == ColumnSum(rows, "end_value")
        total_start_value == ColumnSum(rows, "start_value")
        total_return == total_value - total_start_value
    IN  [total_value       |-> RoundAmount(total_value),
         total_return      |-> RoundAmount(total_return),
         return_percentage |-> IF total_start_value > 0
                               THEN PctScaled(Pct(total_return * 100, total_start_value), 100)
                               ELSE 0,
         total_dividends   |-> RoundAmount(ColumnSum(rows, "dividends")),
         holdings_count    |-> Len(rows)]

EmptySummary ==
    [total_value |-> 0, total_return |-> 0, return_percentage |-> 0,
     total_dividends |-> 0, holdings_count |-> 0]

GetPortfolio ==
    /\ \E sorted \in OrderedByEndValueDesc(holdings) :
          response' = Ok("portfolio",
                         IF sorted = <<>>
                         THEN [holdings |-> <<>>, summary |-> EmptySummary]
                         ELSE [holdings |-> sorted, summary |-> Summary(sorted)])
    /\ UNCHANGED <<holdings, market_data, locked, imported>>

----------------------------------------------------------------------------
(* GET /api/recommendations                                                *)

\* read_sql_query leaves a column whose every entry is NULL as Python None
\* (dtype object); a column with at least one number reads NULL as NaN.
ReadsAsNone(rows, field) ==
    rows # <<>> /\ \A i \in 1..Len(rows) : IsNull(rows[i][field])

\* None > 0, None - start_value and round(None, 2) raise TypeError.
RaisesTypeError(rows) ==
    ReadsAsNone(rows, "start_value") \/ ReadsAsNone(rows, "end_value")

\* start_value > 0 and end_value == 0 as floats compare (false for NaN).
IsPositive(x) == ~IsNull(x) /\ Get(x) > 0
IsZero(x) == ~IsNull(x) /\ Get(x) = 0

\* Mutant of ReturnPct: a position with start_value > 0 and end_value = 0
\* reports 0.
ReturnPctZeroWhenClosed(start_value, end_value) ==
    IF IsPositive(start_value)
    THEN IF IsNull(end_value) THEN PctNaN
         ELSE IF Get(end_value) = 0 THEN Pct(0, 1)
         ELSE Pct((Get(end_value) - Get(start_value)) * 100, Get(start_value))
    ELSE IF IsZero(end_value) THEN Pct(0, 1) ELSE Pct(100, 1)

\* Mutant of ReturnPct: without a positive start_value the return is 0.
ReturnPctFlatWithoutBasis(start_value, end_value) ==
    IF IsPositive(start_value)
    THEN IF IsNull(end_value) THEN PctNaN
         ELSE Pct((Get(end_value) - Get(start_value)) * 100, Get(start_value))
    ELSE Pct(0, 1)

ReturnPct(start_value, end_value) ==
    IF IsPositive(start_value)
    THEN IF IsNull(end_value) THEN PctNaN
         ELSE Pct((Get(end_value) - Get(start_value)) * 100, Get(start_value))
    ELSE IF IsZero(end_value) THEN Pct(0, 1) ELSE Pct(100, 1)

Rec(recommendation, action, text, pct) ==
    [recommendation |-> recommendation, action |-> action,
     rationale |-> [text |-> text, pct |-> pct]]

\* Mutant of Classify: the generic rules are tried before the symbol rules.
ClassifyGenericFirst(ticker, start_value, end_value) ==
    LET return_pct == ReturnPct(start_value, end_value)
    IN  IF IsZero(end_value) /\ IsPositive(start_value)
        THEN Rec("CLOSED", "Position Closed", "Position has been exited", Null)
        ELSE IF PctGt(return_pct, 50)
        THEN Rec("SELL", "Take Profits",
                 "Strong gain of {}%. Consider taking partial profits", Some(Fmt1(return_pct)))
        ELSE IF PctLt(return_pct, -20)
        THEN Rec("SELL", "Review Position",
                 "Down {}%. Review investment thesis", Some(Fmt1Abs(return_pct)))
        ELSE IF PctGt(return_pct, 20)
        THEN Rec("HOLD", "Monitor Winner",
                 "Good gain of {}%. Let winner run with trailing stop", Some(Fmt1(return_pct)))
        ELSE Rec("HOLD", "Maintain", "Position within normal range", Null)

\* Mutant of Classify: the thresholds of the generic rules are inclusive.
ClassifyInclusive(ticker, start_value, end_value) ==
    LET return_pct == ReturnPct(start_value, end_value)
    IN  IF IsZero(end_value) /\ IsPositive(start_value)
        THEN Rec("CLOSED", "Position Closed", "Position has been exited", Null)
        ELSE IF ticker = "SMH" /\ PctGt(return_pct, 100)
        THEN Rec("SELL", "Take Profits",
                 "Exceptional gain of {}%. Lock in 50-70% profits", Some(Fmt1(return_pct)))
        ELSE IF ticker = "QQQ" /\ PctGt(return_pct, 60)
        THEN Rec("SELL", "Reduce Position",
                 "Strong gain of {}%. Reduce by 40%", Some(Fmt1(return_pct)))
        ELSE IF ticker = "SPK" /\ PctLt(return_pct, -30)
        THEN Rec("SELL", "Cut Losses",
                 "Down {}%. Exit to prevent further losses", Some(Fmt1Abs(return_pct)))
        ELSE IF ~PctLt(return_pct, 50)
        THEN Rec("SELL", "Take Profits",
                 "Strong gain of {}%. Consider taking partial profits", Some(Fmt1(return_pct)))
        ELSE IF ~PctGt(return_pct, -20)
        THEN Rec("SELL", "Review Position",
                 "Down {}%. Review investment thesis", Some(Fmt1Abs(return_pct)))
        ELSE IF ~PctLt(return_pct, 20)
        THEN Rec("HOLD", "Monitor Winner",
                 "Good gain of {}%. Let winner run with trailing stop", Some(Fmt1(return_pct)))
        ELSE Rec("HOLD", "Maintain", "Position within normal range", Null)

\* Mutant of Classify: a gain above 20% is a BUY.
ClassifyBuyWinners(ticker, start_value, end_value) ==
    LET return_pct == ReturnPct(start_value, end_value)
    IN  IF IsZero(end_value) /\ IsPositive(start_value)
        THEN Rec("CLOSED", "Position Closed", "Position has been exited", Null)
        ELSE IF PctGt(return_pct, 50)
        THEN Rec("SELL", "Take Profits",
                 "Strong gain of {}%. Consider taking partial profits", Some(Fmt1(return_pct)))
        ELSE IF PctGt(return_pct, 20)
        THEN Rec("BUY", "Add To Winner", "Good gain of {}%", Some(Fmt1(return_pct)))
        ELSE Rec("HOLD", "Maintain", "Position within normal range", Null)

\* The rule chain: the first condition that holds decides.
Classify(ticker, start_value, end_value) ==
    LET return_pct == ReturnPct(start_value, end_value)
    IN  IF IsZero(end_value) /\ IsPositive(start_value)
        THEN Rec("CLOSED", "Position Closed", "Position has been exited", Null)
        ELSE IF ticker = "SMH" /\ PctGt(return_pct, 100)
        THEN Rec("SELL", "Take Profits",
                 "Exceptional gain of {}%. Lock in 50-70% profits", Some(Fmt1(return_pct)))
        ELSE IF ticker = "QQQ" /\ PctGt(return_pct, 60)
        THEN Rec("SELL", "Reduce Position",
                 "Strong gain of {}%. Reduce by 40%", Some(Fmt1(return_pct)))
        ELSE IF ticker = "SPK" /\ PctLt(return_pct, -30)
        THEN Rec("SELL", "Cut Losses",
                 "Down {}%. Exit to prevent further losses", Some(Fmt1Abs(return_pct)))
        ELSE IF PctGt(return_pct, 50)
        THEN Rec("SELL", "Take Profits",
                 "Strong gain of {}%. Consider taking partial profits", Some(Fmt1(return_pct)))
        ELSE IF PctLt(return_pct, -20)
        THEN Rec("SELL", "Review Position",
                 "Down {}%. Review investment thesis", Some(Fmt1Abs(return_pct)))
        ELSE IF PctGt(return_pct, 20)
        THEN Rec("HOLD", "Monitor Winner",
                 "Good gain of {}%. Let winner run with trailing stop", Some(Fmt1(return_pct)))
        ELSE Rec("HOLD", "Maintain", "Position within normal range", Null)

\* One entry of the answer: the ticker, the two rounded numbers, and **rec.
Recommendation(holding) ==
    LET rec == Classify(holding.ticker, holding.start_value, holding.end_value)
    IN  [ticker            |-> holding.ticker,
         current_value     |-> Round2(holding.end_value),
         return_percentage |-> RoundPct2(ReturnPct(holding.start_value, holding.end_value)),
         recommendation    |-> rec.recommendation,
         action            |-> rec.action,
         rationale         |-> rec.rationale]

GetRecommendations ==
    /\ response' =
          IF holdings = <<>>
          THEN Ok("recommendations",
                  [recommendations |-> <<>>, message |-> "No holdings found"])
          ELSE IF RaisesTypeError(holdings)
          THEN Err("recommendations", 500, "TypeError")
          ELSE Ok("recommendations",
                  [recommendations |->
                      [i \in 1..Len(holdings) |-> Recommendation(holdings[i])]])
    /\ UNCHANGED <<holdings, market_data, locked, imported>>

----------------------------------------------------------------------------
(* GET /api/market-data                                                    *)

\* SELECT DISTINCT ticker FROM holdings WHERE end_value > 0, in the order of
\* first occurrence (NULL > 0 is not true).
RECURSIVE DistinctTickers(_, _)
DistinctTickers(rows, seen) ==
    IF rows = <<>> THEN <<>>
    ELSE LET h == Head(rows)
         IN  IF IsPositive(h.end_value) /\ h.ticker \notin seen
             THEN <<h.ticker>> \o DistinctTickers(Tail(rows), seen \cup {h.ticker})
             ELSE DistinctTickers(Tail(rows), seen)

EligibleTickers(rows) == DistinctTickers(rows, {})

ZeroQuote == [price |-> 0, change |-> Pct(0, 1), volume |-> 0, market_cap |-> 0]

\* What stock.info holds: a key is absent (<<>>) or has a number.
Info(price, prev, volume, cap) ==
    [regularMarketPrice |-> price, previousClose |-> prev,
     regularMarketVolume |-> volume, marketCap |-> cap]

\* info.get(key, default)
InfoGet(x, default) == IF IsNull(x) THEN default ELSE Get(x)

\* The quote built from stock.info inside the try block.
QuoteOf(info) ==
    LET current_price == InfoGet(info.regularMarketPrice, InfoGet(info.previousClose, 0))
        prev_close == InfoGet(info.previousClose, current_price)
    IN  [price      |-> current_price,
         change     |-> IF prev_close # 0
                        THEN Pct((current_price - prev_close) * 100, prev_close)
                        ELSE Pct(0, 1),
         volume     |-> InfoGet(info.regularMarketVolume, 0),
         market_cap |-> InfoGet(info.marketCap, 0)]

\* The market_data dict after the loop: one entry per ticker, the zeroed
\* quote where the lookup raised.
Fetched(tickers, outcome) ==
    [i \in 1..Len(tickers) |->
        [ticker |-> tickers[i],
         quote  |-> IF outcome[tickers[i]].raises
                    THEN ZeroQuote
                    ELSE QuoteOf(outcome[tickers[i]].info)]]

\* The lookups of the model: a full quote, an empty info, and one that raises.
LookupOutcomes ==
    {[raises |-> FALSE, info |-> Info(Some(110000), Some(100000), Some(5000), Some(900000))],
     [raises |-> FALSE, info |-> Info(Null, Null, Null, Null)],
     [raises |-> TRUE, info |-> Info(Null, Null, Null, Null)]}

Range(seq) == {seq[i] : i \in 1..Len(seq)}

GetMarketData ==
    LET tickers == EligibleTickers(holdings)
    IN  IF tickers = <<>>
        THEN /\ response' = Ok("market-data",
                               [market_data |-> <<>>, message |-> "No holdings to update"])
             /\ UNCHANGED <<holdings, market_data, locked, imported>>
        ELSE \E outcome \in [Range(tickers) -> LookupOutcomes] :
                LET batch == Fetched(tickers, outcome)
                IN  IF locked
                    THEN \* DELETE FROM market_data raises OperationalError,
                         \* which nothing catches
                         /\ response' = Err("market-data", 500, "database is locked")
                         /\ UNCHANGED <<holdings, market_data, locked, imported>>
                    ELSE /\ market_data' = batch
                         /\ response' = Ok("market-data", [market_data |-> batch])
                         /\ UNCHANGED <<holdings, locked, imported>>

----------------------------------------------------------------------------
(* The requests the model sends.                                           *)

SeqsUpTo(S, n) == UNION {[1..k -> S] : k \in 0..n}

Cell(t, x, c, sv, ev, sp, ep, d, f) ==
    [ticker |-> t, exchange |-> x, currency |-> c, start_value |-> sv,
     end_value |-> ev, start_price |-> sp, end_price |-> ep,
     dividends |-> d, fees |-> f]

\* Rows of the uploaded files: a large gain with sub-cent amounts, a gain of
\* exactly 20%, a closed position, an empty ticker cell, empty numeric cells.
SampleRows ==
    {Cell(Some("SMH"), Some("NASDAQ"), Some("USD"), Some(1000000), Some(2500004),
          Some(100000), Some(250000), Some(12006), Some(4990)),
     Cell(Some("AAPL"), Some("NASDAQ"), Some("USD"), Some(1000000), Some(1200000),
          Some(150000), Some(180000), Some(0), Some(0)),
     Cell(Some("XYZ"), Some("NYSE"), Some("USD"), Some(1000000), Some(0),
          Some(50000), Some(0), Some(0), Some(9990)),
     Cell(Null, Some("NYSE"), Some("USD"), Some(1000000), Some(1000000),
          Some(10000), Some(10000), Some(0), Some(0)),
     Cell(Some("QQQ"), Some("NASDAQ"), Null, Some(1000000), Null, Some(300000), Null,
          Null, Null)}

\* The mapped columns a file has: all nine, or (with the other headers
\* spelled differently) only Exchange.
Layouts == {Columns, {"exchange"}}

CsvRequest(cols, rows) ==
    [has_file |-> TRUE, filename |-> "portfolio.csv", parses |-> TRUE,
     cols |-> cols, rows |-> [i \in 1..Len(rows) |-> Restrict(rows[i], cols)]]

BadRequests ==
    {[has_file |-> FALSE, filename |-> "", parses |-> FALSE, cols |-> {}, rows |-> <<>>],
     [has_file |-> TRUE, filename |-> "", parses |-> TRUE, cols |-> {}, rows |-> <<>>],
     [has_file |-> TRUE, filename |-> "portfolio.csv", parses |-> FALSE,
      cols |-> {}, rows |-> <<>>]}

Requests ==
    BadRequests \cup
    {CsvRequest(cols, rows) : cols \in Layouts, rows \in SeqsUpTo(SampleRows, MaxRows)}

----------------------------------------------------------------------------
(* POST /api/upload statement by statement, with other requests served     *)
(* between its statements (the server handles each request in a thread of  *)
(* its own).                                                               *)

\* No import is between its DELETE and its commit.
NoTxn == [state |-> "none", cols |-> {}, rows |-> <<>>, view |-> <<>>, observed |-> {}]

\* Mutant of BeginImport: the connection is in autocommit mode, so the DELETE
\* is committed at once.
BeginImportAutocommit(req) ==
    /\ txn.state = "none"
    /\ req.has_file /\ req.filename # "" /\ req.parses
    /\ ~locked
    /\ txn' = [state |-> "open", cols |-> req.cols, rows |-> req.rows,
               view |-> <<>>, observed |-> {}]
    /\ locked' = TRUE
    /\ holdings' = <<>>
    /\ UNCHANGED <<market_data, response, imported>>

\* cursor.execute("DELETE FROM holdings"): sqlite3 opens a transaction before
\* the statement and takes the write lock; the deletion is in the view of this
\* connection only, every other connection still reads the committed rows.
BeginImport(req) ==
    /\ txn.state = "none"
    /\ req.has_file /\ req.filename # "" /\ req.parses
    /\ ~locked
    /\ txn' = [state |-> "open", cols |-> req.cols, rows |-> req.rows,
               view |-> <<>>, observed |-> {}]
    /\ locked' = TRUE
    /\ UNCHANGED <<holdings, market_data, response, imported>>

\* Mutant of FailImport: what the import had written when it failed is
\* committed.
FailImportCommitting ==
    /\ txn' = [txn EXCEPT !.state = "abandoned"]
    /\ holdings' = txn.view
    /\ response' = Err("upload", 400, "NOT NULL constraint failed: holdings.ticker")
    /\ UNCHANGED <<market_data, locked, imported>>

\* The INSERT raised: the except block answers 400 and the connection is left
\* as it is, its transaction neither committed nor rolled back.
FailImport ==
    /\ txn' = [txn EXCEPT !.state = "abandoned"]
    /\ response' = Err("upload", 400, "NOT NULL constraint failed: holdings.ticker")
    /\ UNCHANGED <<holdings, market_data, locked, imported>>

\* One turn of the insert loop: the next row of the file is bound and
\* inserted into the view of the import's connection.
InsertRow ==
    /\ txn.state = "open"
    /\ Len(txn.view) < Len(txn.rows)
    /\ LET bound == BoundRow(txn.rows[Len(txn.view) + 1], txn.cols)
       IN  IF ViolatesNotNull(bound)
           THEN FailImport
           ELSE /\ txn' = [txn EXCEPT !.view = Append(@, StoredRow(bound))]
                /\ UNCHANGED <<holdings, market_data, locked, response, imported>>

\* conn.commit(), conn.close() and the answer: the view of the import becomes
\* the committed store and the write lock is released.
CommitImport ==
    /\ txn.state = "open"
    /\ Len(txn.view) = Len(txn.rows)
    /\ holdings' = txn.view
    /\ imported' = [cols |-> txn.cols, rows |-> txn.rows]
    /\ locked' = FALSE
    /\ txn' = NoTxn
    /\ response' = Ok("upload", [message |-> "Portfolio uploaded successfully",
                                 holdings_count |-> Len(txn.rows)])
    /\ UNCHANGED market_data

\* The abandoned connection of a failed import is finalised.
CollectAbandoned ==
    /\ txn.state = "abandoned"
    /\ CollectConnection
    /\ txn' = NoTxn

\* An upload that arrives while the write lock is held gives up after the
\* busy timeout; one that is rejected before any SQL is answered as ever.
UploadRefused(req) ==
    /\ locked \/ ~req.has_file \/ req.filename = "" \/ ~req.parses
    /\ Upload(req)
    /\ UNCHANGED txn

\* The number of rows a read request found in table holdings.
RowsRead(resp) ==
    IF resp.op = "portfolio" THEN Len(resp.body.holdings)
    ELSE Len(resp.body.recommendations)

\* History: the row counts found by the reads served while the import was
\* between its DELETE and its commit.
Observe(resp) ==
    IF txn.state = "open" /\ resp.status = 200
    THEN [txn EXCEPT !.observed = @ \cup {RowsRead(resp)}]
    ELSE txn

ReadPortfolio ==
    /\ GetPortfolio
    /\ txn' = Observe(response')

ReadRecommendations ==
    /\ GetRecommendations
    /\ txn' = Observe(response')

\* Rows of the files of the statement-level specification.
StepRows ==
    {row \in SampleRows : row.ticker \in {Some("SMH"), Some("XYZ"), Null}}

StepRequests ==
    {CsvRequest(Columns, rows) : rows \in SeqsUpTo(StepRows, MaxRows)}

NextSteps ==
    \/ \E req \in StepRequests : BeginImport(req)
    \/ InsertRow
    \/ CommitImport
    \/ CollectAbandoned
    \/ \E req \in StepRequests \cup BadRequests : UploadRefused(req)
    \/ ReadPortfolio
    \/ ReadRecommendations

----------------------------------------------------------------------------
NoResponse == [op |-> "none", status |-> 0, body |-> <<>>]

Init ==
    /\ holdings = <<>>
    /\ market_data = <<>>
    /\ locked = FALSE
    /\ response = NoResponse
    /\ imported = [cols |-> {}, rows |-> <<>>]
    /\ txn = NoTxn

\* Every request is served from its first statement to its answer before the
\* next one starts.
Next ==
    \/ (\E req \in Requests : Upload(req)) /\ UNCHANGED txn
    \/ CollectConnection /\ UNCHANGED txn
    \/ GetPortfolio /\ UNCHANGED txn
    \/ GetRecommendations /\ UNCHANGED txn
    \/ GetMarketData /\ UNCHANGED txn

Spec == Init /\ [][Next]_vars

----------------------------------------------------------------------------
(* One-holding portfolios over a grid of tickers and values, for the       *)
(* classification rules: every rule, every threshold from both sides.      *)

GridTickers == {"SMH", "QQQ", "SPK", "AAPL", "XYZ"}

GridStartValues == {Null, Some(0), Some(1000000), Some(1100000)}

GridEndValues ==
    {Null, Some(0), Some(600000), Some(700000), Some(750000), Some(800000),
     Some(1000000), Some(1200000), Some(1250000), Some(1500000), Some(1600000),
     Some(1700000), Some(2000000), Some(2500000)}

GridRequests ==
    {CsvRequest(Columns,
                <<Cell(Some(t), Some("NYSE"), Some("USD"), sv, ev,
                       Some(10000), Some(10000), Some(0), Some(0))>>) :
        t \in GridTickers, sv \in GridStartValues, ev \in GridEndValues}

NextGrid ==
    \/ (\E req \in GridRequests : Upload(req)) /\ UNCHANGED txn
    \/ GetRecommendations /\ UNCHANGED txn
    \/ GetPortfolio /\ UNCHANGED txn

SpecGrid == Init /\ [][NextGrid]_vars

SpecSteps == Init /\ [][NextSteps]_vars

----------------------------------------------------------------------------
(* Properties.                                                             *)

UploadOk == response.op = "upload" /\ response.status = 200
PortfolioOk == response.op = "portfolio" /\ response.status = 200
RecommendationsOk == response.op = "recommendations" /\ response.status = 200

\* C1: after a successful upload the store holds exactly the rows of the
\* uploaded file, in file order and nothing else, and the holdings_count of
\* the answer is the number of rows of the file.
C1_UploadReplacesStore ==
    UploadOk =>
        /\ Len(holdings) = Len(imported.rows)
        /\ response.body.holdings_count = Len(imported.rows)
        /\ \A i \in 1..Len(imported.rows) :
              /\ "ticker" \in imported.cols =>
                    holdings[i].ticker = Get(imported.rows[i]["ticker"])
              /\ \A c \in imported.cols \ {"ticker"} :
                    holdings[i][c] = imported.rows[i][c]

\* C1 witness: a one-row file was imported over a store that had held two
\* holdings (the cache still has the two quotes fetched for them).
C1_Witness ==
    /\ UploadOk
    /\ Len(holdings) = 1
    /\ response.body.holdings_count = 1
    /\ Len(market_data) = 2

\* C2: an upload without a file field, with an empty filename or with a file
\* that read_csv rejects answers 400 with an error body and leaves the
\* holdings store as it was.
C2_RejectedUploadLeavesStore ==
    [][\A req \in BadRequests :
          Upload(req) =>
              /\ response'.status = 400
              /\ DOMAIN response'.body = {"error"}
              /\ holdings' = holdings]_vars

\* C2 witness: an unparseable file was rejected while the store held two rows.
C2_Witness ==
    /\ response.op = "upload"
    /\ response.status = 400
    /\ response.body.error = "read_csv failed"
    /\ Len(holdings) = 2

RECURSIVE TotalOf(_, _)
TotalOf(n, field) ==
    IF n = 0 THEN 0
    ELSE TotalOf(n - 1, field)
         + (IF IsNull(holdings[n][field]) THEN 0 ELSE Get(holdings[n][field]))

\* reported is exact rounded to the cent.
IsRoundedToCent(reported, exact) ==
    /\ reported % 10 = 0
    /\ 2 * Abs(reported - exact) <= 10

\* C4 (as claimed): the summary reports the exact sums.
C4_SummaryIsExactSum ==
    PortfolioOk =>
        LET summary == response.body.summary
            total_end == TotalOf(Len(holdings), "end_value")
            total_start == TotalOf(Len(holdings), "start_value")
        IN  /\ summary.total_value = total_end
            /\ summary.total_return = total_end - total_start
            /\ summary.holdings_count = Len(holdings)
            /\ total_start = 0 => summary.return_percentage = 0
            /\ holdings = <<>> => summary = EmptySummary

\* C4 (amended): GET /api/portfolio always answers 200; total_value is the sum
\* of end_value rounded to the cent, total_return the sum of end_value minus
\* the sum of start_value rounded to the cent, holdings_count the number of
\* holdings, return_percentage 0 when the sum of start_value is 0, and the
\* summary of an empty store is all zeros.
C4_SummaryIsRoundedSum ==
    /\ response.op = "portfolio" => response.status = 200
    /\ PortfolioOk =>
        LET summary == response.body.summary
            total_end == TotalOf(Len(holdings), "end_value")
            total_start == TotalOf(Len(holdings), "start_value")
        IN  /\ IsRoundedToCent(summary.total_value, total_end)
            /\ IsRoundedToCent(summary.total_return, total_end - total_start)
            /\ summary.holdings_count = Len(holdings)
            /\ total_start = 0 => summary.return_percentage = 0
            /\ holdings = <<>> => summary = EmptySummary

\* C4 witness: a summary of two holdings whose total is not a whole cent.
C4_Witness ==
    /\ PortfolioOk
    /\ Len(holdings) = 2
    /\ response.body.summary.total_value # TotalOf(Len(holdings), "end_value")
    /\ response.body.summary.total_return > 0

\* The rule table of the claim: rule k's condition on a holding.
RuleHolds(k, h) ==
    LET return_pct == ReturnPct(h.start_value, h.end_value)
    IN  CASE k = 1 -> IsZero(h.end_value) /\ IsPositive(h.start_value)
          [] k = 2 -> h.ticker = "SMH" /\ PctGt(return_pct, 100)
          [] k = 3 -> h.ticker = "QQQ" /\ PctGt(return_pct, 60)
          [] k = 4 -> h.ticker = "SPK" /\ PctLt(return_pct, -30)
          [] k = 5 -> PctGt(return_pct, 50)
          [] k = 6 -> PctLt(return_pct, -20)
          [] k = 7 -> PctGt(return_pct, 20)
          [] OTHER -> TRUE

RuleOutcome ==
    <<[recommendation |-> "CLOSED", action |-> "Position Closed"],
      [recommendation |-> "SELL", action |-> "Take Profits"],
      [recommendation |-> "SELL", action |-> "Reduce Position"],
      [recommendation |-> "SELL", action |-> "Cut Losses"],
      [recommendation |-> "SELL", action |-> "Take Profits"],
      [recommendation |-> "SELL", action |-> "Review Position"],
      [recommendation |-> "HOLD", action |-> "Monitor Winner"],
      [recommendation |-> "HOLD", action |-> "Maintain"]>>

FirstRule(h) ==
    CHOOSE k \in 1..8 : RuleHolds(k, h) /\ \A j \in 1..(k - 1) : ~RuleHolds(j, h)

\* The gain of h is exactly pct percent of a positive start_value.
ReturnIsExactly(h, pct) ==
    /\ IsPositive(h.start_value)
    /\ ~IsNull(h.end_value)
    /\ (Get(h.end_value) - Get(h.start_value)) * 100 = pct * Get(h.start_value)

\* C5: every entry carries the outcome of the lowest-numbered rule whose
\* condition holds; SMH with a return of 150% gets SELL / Take Profits with
\* the rationale of the SMH rule.
C5_FirstMatchingRuleWins ==
    RecommendationsOk =>
        \A i \in 1..Len(response.body.recommendations) :
            LET h == holdings[i]
                e == response.body.recommendations[i]
            IN  /\ e.recommendation = RuleOutcome[FirstRule(h)].recommendation
                /\ e.action = RuleOutcome[FirstRule(h)].action
                /\ (h.ticker = "SMH" /\ ReturnIsExactly(h, 150)) =>
                      /\ e.recommendation = "SELL"
                      /\ e.action = "Take Profits"
                      /\ e.rationale =
                            [text |-> "Exceptional gain of {}%. Lock in 50-70% profits",
                             pct |-> Some(1500)]

\* C5 witness: SMH with a return of 150%, which rules 2 and 5 both match.
C5_Witness ==
    /\ RecommendationsOk
    /\ Len(holdings) = 1
    /\ holdings[1].ticker = "SMH"
    /\ ReturnIsExactly(holdings[1], 150)
    /\ RuleHolds(2, holdings[1]) /\ RuleHolds(5, holdings[1])
    /\ response.body.recommendations[1].action = "Take Profits"

\* C6: no entry of an answer of GET /api/recommendations is a BUY.
C6_NoBuy ==
    RecommendationsOk =>
        \A i \in 1..Len(response.body.recommendations) :
            response.body.recommendations[i].recommendation \in {"SELL", "HOLD", "CLOSED"}

\* C6 witness: an answer with an entry for a winner that is held.
C6_Witness ==
    /\ RecommendationsOk
    /\ Len(response.body.recommendations) = 1
    /\ response.body.recommendations[1].action = "Monitor Winner"

\* C7: for a ticker without a rule of its own, a return of exactly 20% is
\* HOLD / Maintain, one of exactly 50% is not SELL / Take Profits and one of
\* exactly -20% is not SELL / Review Position.
C7_ThresholdsAreStrict ==
    RecommendationsOk =>
        \A i \in 1..Len(response.body.recommendations) :
            LET h == holdings[i]
                e == response.body.recommendations[i]
            IN  h.ticker \notin {"SMH", "QQQ", "SPK"} =>
                  /\ ReturnIsExactly(h, 20) =>
                        e.recommendation = "HOLD" /\ e.action = "Maintain"
                  /\ ReturnIsExactly(h, 50) =>
                        ~(e.recommendation = "SELL" /\ e.action = "Take Profits")
                  /\ ReturnIsExactly(h, -20) =>
                        ~(e.recommendation = "SELL" /\ e.action = "Review Position")

\* C7 witness: AAPL, 1000 -> 1200, answered HOLD / Maintain.
C7_Witness ==
    /\ RecommendationsOk
    /\ Len(holdings) = 1
    /\ holdings[1].ticker = "AAPL"
    /\ holdings[1].start_value = Some(1000000)
    /\ holdings[1].end_value = Some(1200000)
    /\ response.body.recommendations[1].action = "Maintain"

\* C8 (as claimed): a holding with start_value > 0 and end_value = 0 is
\* CLOSED / Position Closed and its return_percentage is reported as 0.0.
C8_ClosedReportsZero ==
    RecommendationsOk =>
        \A i \in 1..Len(response.body.recommendations) :
            LET h == holdings[i]
                e == response.body.recommendations[i]
            IN  (IsPositive(h.start_value) /\ IsZero(h.end_value)) =>
                  /\ e.recommendation = "CLOSED"
                  /\ e.action = "Position Closed"
                  /\ e.return_percentage = Some(0)

\* C8 (amended): a holding with start_value > 0 and end_value = 0 is
\* CLOSED / Position Closed and its return_percentage is reported as -100.0.
C8_ClosedReportsMinusHundred ==
    RecommendationsOk =>
        \A i \in 1..Len(response.body.recommendations) :
            LET h == holdings[i]
                e == response.body.recommendations[i]
            IN  (IsPositive(h.start_value) /\ IsZero(h.end_value)) =>
                  /\ e.recommendation = "CLOSED"
                  /\ e.action = "Position Closed"
                  /\ e.return_percentage = Some(-10000)

\* C8 witness: XYZ, 1000 -> 0, answered CLOSED.
C8_Witness ==
    /\ RecommendationsOk
    /\ Len(holdings) = 1
    /\ holdings[1].ticker = "XYZ"
    /\ holdings[1].start_value = Some(1000000)
    /\ holdings[1].end_value = Some(0)
    /\ response.body.recommendations[1].recommendation = "CLOSED"

\* C9 (as claimed): GET /api/recommendations answers with one entry per
\* holding of the store, in which holdings with the same ticker, start_value
\* and end_value get the same recommendation, action and rationale, and it
\* changes neither table.
C9_RecommendationsFromHoldingsOnly ==
    [][GetRecommendations =>
          /\ holdings' = holdings
          /\ market_data' = market_data
          /\ response'.status = 200
          /\ Len(response'.body.recommendations) = Len(holdings)
          /\ \A i \in 1..Len(holdings) :
                /\ response'.body.recommendations[i].ticker = holdings[i].ticker
                /\ \A j \in 1..Len(holdings) :
                      (/\ holdings[i].ticker = holdings[j].ticker
                       /\ holdings[i].start_value = holdings[j].start_value
                       /\ holdings[i].end_value = holdings[j].end_value) =>
                          response'.body.recommendations[i] =
                             response'.body.recommendations[j]]_vars

\* C10 (as claimed): after a successful import every holding has a non-empty
\* ticker, and every numeric field whose column or cell the file lacks is
\* stored as 0.
C10_ImportDefaults ==
    UploadOk =>
        \A i \in 1..Len(holdings) :
            /\ holdings[i].ticker # ""
            /\ \A f \in NumericFields :
                  (f \notin imported.cols \/ IsNull(imported.rows[i][f])) =>
                      holdings[i][f] = Some(0)

\* The rows table holdings gets from the last committed file.
CommittedFile ==
    [i \in 1..Len(imported.rows) |-> StoredRow(BoundRow(imported.rows[i], imported.cols))]

\* An import of a non-empty file over a non-empty store has executed its
\* DELETE and not yet its first INSERT.
BetweenDeleteAndInsert ==
    /\ txn.state = "open"
    /\ txn.view = <<>>
    /\ txn.rows # <<>>
    /\ holdings # <<>>

\* C12 (as claimed): a read request served between the DELETE of an import
\* and its first INSERT finds what the import has written so far, an empty
\* holdings store, although the old and the new holdings are both non-empty.
C12_ReadSeesEmptyStore ==
    BetweenDeleteAndInsert => \A n \in txn.observed : n = 0

\* C12 (amended): every read request served while an import is between its
\* DELETE and its commit finds the complete previous holdings, so never an
\* empty store when the previous holdings are non-empty.
C12_ReadSeesPreviousStore ==
    txn.state = "open" =>
        /\ holdings = CommittedFile
        /\ \A n \in txn.observed : n = Len(holdings)

\* C12 witness: a read was served between the DELETE and the first INSERT of
\* an import of a non-empty file over a store of two holdings, and found two.
C12_Witness ==
    /\ BetweenDeleteAndInsert
    /\ Len(holdings) = 2
    /\ txn.observed = {2}
    /\ response.op \in {"portfolio", "recommendations"}

CachedTickers == [j \in 1..Len(market_data) |-> market_data[j].ticker]

C14_NoBasisIsTakeProfits ==
    RecommendationsOk =>
        \A i \in 1..Len(response.body.recommendations) :
            LET h == holdings[i]
                e == response.body.recommendations[i]
            IN  IsZero(h.start_value) =>
                  /\ IsZero(h.end_value) =>
                        /\ e.return_percentage = Some(0)
                        /\ e.recommendation = "HOLD" /\ e.action = "Maintain"
                  /\ IsPositive(h.end_value) =>
                        /\ e.return_percentage = Some(10000)
                        /\ e.recommendation = "SELL" /\ e.action = "Take Profits"
                        /\ e.rationale =
                              [text |-> "Strong gain of {}%. Consider taking partial profits",
                               pct |-> Some(1000)]

\* C14 (amended): a holding with start_value = 0 reports a return of 0 and is
\* HOLD / Maintain when end_value is 0; when end_value > 0 it reports 100 and
\* is SELL / Take Profits by the generic rule for every ticker but QQQ, SMH
\* included, and SELL / Reduce Position by the QQQ rule (100 > 60) for QQQ.
C14_NoBasisIsTakeProfitsButQQQ ==
    RecommendationsOk =>
        \A i \in 1..Len(response.body.recommendations) :
            LET h == holdings[i]
                e == response.body.recommendations[i]
            IN  IsZero(h.start_value) =>
                  /\ IsZero(h.end_value) =>
                        /\ e.return_percentage = Some(0)
                        /\ e.recommendation = "HOLD" /\ e.action = "Maintain"
                  /\ (IsPositive(h.end_value) /\ h.ticker # "QQQ") =>
                        /\ e.return_percentage = Some(10000)
                        /\ e.recommendation = "SELL" /\ e.action = "Take Profits"
                        /\ e.rationale =
                              [text |-> "Strong gain of {}%. Consider taking partial profits",
                               pct |-> Some(1000)]
                  /\ (IsPositive(h.end_value) /\ h.ticker = "QQQ") =>
                        /\ e.return_percentage = Some(10000)
                        /\ e.recommendation = "SELL" /\ e.action = "Reduce Position"
                        /\ e.rationale =
                              [text |-> "Strong gain of {}%. Reduce by 40%",
                               pct |-> Some(1000)]

\* C14 witness: SMH with start_value 0 and a positive end_value, answered
\* SELL / Take Profits with the rationale of the generic rule.
C14_Witness ==
    /\ RecommendationsOk
    /\ Len(holdings) = 1
    /\ holdings[1].ticker = "SMH"
    /\ holdings[1].start_value = Some(0)
    /\ IsPositive(holdings[1].end_value)
    /\ response.body.recommendations[1].action = "Take Profits"
    /\ response.body.recommendations[1].rationale.text =
          "Strong gain of {}%. Consider taking partial profits"

\* C15: the cache changes only in a step that answers a market-data refresh
\* which found an eligible ticker; an upload, accepted or not, a portfolio or
\* recommendations request and a refresh without eligible ticker leave it as
\* it was.
C15_OnlyRefreshChangesCache ==
    [][/\ market_data' # market_data =>
             /\ response'.op = "market-data"
             /\ response'.status = 200
             /\ EligibleTickers(holdings) # <<>>
             /\ holdings' = holdings
       /\ response'.op \in {"upload", "portfolio", "recommendations"} =>
             market_data' = market_data]_vars

\* C15 witness: after an accepted upload the cache holds a quote for a ticker
\* that no holding of the store has.
C15_Witness ==
    /\ UploadOk
    /\ holdings # <<>>
    /\ \E j \in 1..Len(market_data) :
          \A i \in 1..Len(holdings) : holdings[i].ticker # market_data[j].ticker

====
